---- MODULE Spec2Model ----
(***************************************************************************)
(* ArchDoc-Toolkit: DocumentationManager and its two section generators    *)
(* (archdoc_toolkit/documentation_generator.py), modelled over a small     *)
(* filesystem rooted at doc_root.                                          *)
(*                                                                         *)
(* Text is a sequence of pieces: a piece is one character of a            *)
(* caller-supplied string, or one literal chunk of a string the code       *)
(* writes.  Equal piece sequences are equal byte sequences.                *)
(***************************************************************************)
EXTENDS Integers, Sequences, FiniteSets, TLC

VARIABLES section_names, project_description, today, generators,
          section_generators, fs, err, last, invoked, added, hist, steps

vars == <<section_names, project_description, today, generators,
          section_generators, fs, err, last, invoked, added, hist, steps>>

(***************************************************************************)
(* Bounds of the model.                                                    *)
(***************************************************************************)
MaxOps == 5
MaxDiskOps == 3
MaxSections == 2
MaxRegistered == 3
MaxEntriesAtStart == 1

(***************************************************************************)
(* Text helpers.                                                           *)
(***************************************************************************)
NL == "\n"

Range(s) == {s[i] : i \in DOMAIN s}

RECURSIVE Flatten(_)
Flatten(ss) == IF ss = <<>> THEN <<>> ELSE Head(ss) \o Flatten(Tail(ss))

\* str.replace(old, new) for a one-character old: every occurrence, left to right.
RECURSIVE Replace(_, _, _)
Replace(s, old, new) ==
    IF s = <<>> THEN <<>>
    ELSE <<IF Head(s) = old THEN new ELSE Head(s)>> \o Replace(Tail(s), old, new)

\* section_name.replace(" ", "_")
Normalize(name) == Replace(name, " ", "_")

\* The lines of a text: the pieces between consecutive newlines.
RECURSIVE SplitLines(_, _)
SplitLines(text, cur) ==
    IF text = <<>> THEN <<cur>>
    ELSE IF Head(text) = NL THEN <<cur>> \o SplitLines(Tail(text), <<>>)
    ELSE SplitLines(Tail(text), Append(cur, Head(text)))

Lines(text) == SplitLines(text, <<>>)

Pad2(n) == IF n < 10 THEN <<"0", ToString(n)>> ELSE <<ToString(n)>>

\* date.today().strftime("%Y-%m-%d %H:%M:%S"): a date has no time of day.
Strftime(d) ==
    <<ToString(d.year), "-">> \o Pad2(d.month) \o <<"-">> \o Pad2(d.day)
        \o <<" ", "00", ":", "00", ":", "00">>

(***************************************************************************)
(* Inputs.                                                                 *)
(***************************************************************************)
TocFile == <<"ArchDoc", ".md">>

Names == {<<"a", " ", "b">>, <<"a", "_", "b">>, <<"c">>, TocFile}

Texts == {<<"x">>, <<"x", " ", "y">>}

EntryNames == {<<"K", "I", "S", "S">>, <<"C", "M", "a", "k", "e">>}

EntryValues == {<<"v">>, <<"w">>}

Dates == {[year |-> 2024, month |-> 1, day |-> 5],
          [year |-> 2024, month |-> 12, day |-> 31]}

SeqsUpTo(S, n) == UNION {[1..k -> S] : k \in 0..n}

(***************************************************************************)
(* The filesystem under doc_root.  A path is the sequence of components    *)
(* below doc_root; <<>> is doc_root itself.                                *)
(***************************************************************************)
Comps == {Normalize(n) : n \in Names} \cup {TocFile}

SectionDir(name) == <<Normalize(name)>>

SectionFile(name) == <<Normalize(name), Normalize(name) \o <<".md">>>>

TocPath == <<TocFile>>

Paths == {<<>>} \cup {<<c>> : c \in Comps} \cup {<<c, c \o <<".md">>>> : c \in Comps}

Parent(p) == SubSeq(p, 1, Len(p) - 1)

Absent == [type |-> "absent"]
Dir == [type |-> "dir"]
File(content) == [type |-> "file", content |-> content]

\* os.path.exists
Exists(disk, p) == disk[p].type # "absent"

IsDir(disk, p) == disk[p].type = "dir"

IsFile(disk, p) == disk[p].type = "file"

\* Nothing exists below something that is not a directory.
WellFormed(disk) ==
    \A p \in Paths : (p # <<>> /\ Exists(disk, p)) => IsDir(disk, Parent(p))

NoError == "none"

Ok(disk) == [fs |-> disk, err |-> NoError]

Raise(disk, e) == [fs |-> disk, err |-> e]

\* os.makedirs(p), called only where os.path.exists(p) is false.
Makedirs(disk, p) ==
    IF p = <<>> THEN Ok([disk EXCEPT ![p] = Dir])
    ELSE IF IsFile(disk, Parent(p)) THEN Raise(disk, "NotADirectoryError")
    ELSE Ok([q \in Paths |-> IF q = p \/ q = Parent(p) THEN Dir ELSE disk[q]])

\* A slip: the file opened with "a", so that a write adds to what is there.
OpenAppend(disk, p, content) ==
    IF ~Exists(disk, Parent(p)) THEN Raise(disk, "FileNotFoundError")
    ELSE IF IsFile(disk, Parent(p)) THEN Raise(disk, "NotADirectoryError")
    ELSE IF IsDir(disk, p) THEN Raise(disk, "IsADirectoryError")
    ELSE Ok([disk EXCEPT ![p] =
                File((IF IsFile(disk, p) THEN disk[p].content ELSE <<>>) \o content)])

\* with open(p, "w") as file: file.write(...) ...
OpenWrite(disk, p, content) ==
    IF ~Exists(disk, Parent(p)) THEN Raise(disk, "FileNotFoundError")
    ELSE IF IsFile(disk, Parent(p)) THEN Raise(disk, "NotADirectoryError")
    ELSE IF IsDir(disk, p) THEN Raise(disk, "IsADirectoryError")
    ELSE Ok([disk EXCEPT ![p] = File(content)])

(***************************************************************************)
(* DocumentationManager.initialize_project                                 *)
(***************************************************************************)
\* A slip: os.makedirs without the os.path.exists test before it.
EnsureDirUnchecked(disk, p) ==
    IF Exists(disk, p) THEN Raise(disk, "FileExistsError") ELSE Makedirs(disk, p)

\* if not os.path.exists(p): os.makedirs(p)
EnsureDir(disk, p) == IF ~Exists(disk, p) THEN Makedirs(disk, p) ELSE Ok(disk)

\* A slip: the loop left after the first section name.
EnsureSectionsFirstOnly(disk, names) ==
    IF names = <<>> THEN Ok(disk) ELSE EnsureDir(disk, SectionDir(Head(names)))

\* for section_name in self.section_names: ...
RECURSIVE EnsureSections(_, _)
EnsureSections(disk, names) ==
    IF names = <<>> THEN Ok(disk)
    ELSE LET r == EnsureDir(disk, SectionDir(Head(names)))
         IN  IF r.err # NoError THEN r ELSE EnsureSections(r.fs, Tail(names))

\* A slip: doc_root created, the section directories forgotten.
InitializeProjectRootOnly(disk, names) == EnsureDir(disk, <<>>)

InitializeProject(disk, names) ==
    LET r == EnsureDir(disk, <<>>)
    IN  IF r.err # NoError THEN r ELSE EnsureSections(r.fs, names)

(***************************************************************************)
(* DocumentationManager.update_table_of_contents                           *)
(***************************************************************************)
\* A slip: the link target built from the name as given.
TocBulletRawTarget(name) ==
    <<"- [">> \o name \o <<"](./">> \o name \o <<"/">> \o name \o <<".md)", NL>>

TocBullet(name) ==
    <<"- [">> \o name \o <<"](./">> \o Normalize(name) \o <<"/">>
        \o Normalize(name) \o <<".md)", NL>>

RenderToc(names, description) ==
    <<"# Table of contents", NL, NL>>
        \o Flatten([i \in DOMAIN names |-> TocBullet(names[i])])
        \o <<NL, "---", NL, NL>> \o description

UpdateTableOfContents(disk, names, description) ==
    OpenWrite(disk, TocPath, RenderToc(names, description))

(***************************************************************************)
(* The generators.  A dict is the sequence of its <<key, value>> items in  *)
(* insertion order.                                                        *)
(***************************************************************************)
Keys(d) == [i \in DOMAIN d |-> d[i][1]]

\* A slip: a key set again moves to the end (as del d[k]; d[k] = v would).
DictSetMovingToEnd(d, k, v) ==
    Append(SelectSeq(d, LAMBDA item : item[1] # k), <<k, v>>)

\* d[k] = v
DictSet(d, k, v) ==
    IF \E i \in DOMAIN d : d[i][1] = k
    THEN [i \in DOMAIN d |-> IF d[i][1] = k THEN <<k, v>> ELSE d[i]]
    ELSE Append(d, <<k, v>>)

IntroductionGenerator(name, description) ==
    [kind |-> "Introduction", section_name |-> name, description |-> description,
     abbreviations |-> <<>>, defines |-> <<>>]

AbbrAndDefGenerator(name, description) ==
    [kind |-> "AbbrAndDef", section_name |-> name, description |-> description,
     abbreviations |-> <<>>, defines |-> <<>>]

IntroBoilerplate ==
    "Provide a comprehsive introduction to the project, including its purpose, key features and overall architecture."

AbbrBoilerplate ==
    "Explains basic abbreviations, abbreviations and terms used in this project"

IntroHeading(g) == <<"# ">> \o g.section_name \o <<NL, NL>>

IntroLastUpdated(d) == <<"*Last updated: ">> \o Strftime(d) \o <<"*", NL, NL>>

IntroRule == <<NL, NL, "---", NL, NL>>

\* IntroductionGenerator.generate_section: what it writes
RenderIntroduction(g, d) ==
    IntroHeading(g) \o IntroLastUpdated(d) \o <<IntroBoilerplate>> \o IntroRule
        \o g.description

AbbrHeading(g) == <<"# ">> \o g.section_name \o <<NL, NL>>

\* A drift between the variants: the date without the time of day.
AbbrLastUpdatedDateOnly(d) ==
    <<"*Last updated: ">> \o SubSeq(Strftime(d), 1, Len(Strftime(d)) - 6)
        \o <<"*", NL, NL>>

AbbrLastUpdated(d) == <<"*Last updated: ">> \o Strftime(d) \o <<"*", NL, NL>>

AbbrRule == <<NL, NL, "---", NL, NL>>

EntryLine(item) == <<" + **">> \o item[1] \o <<"**: ">> \o item[2] \o <<NL>>

Subsection(title, d) ==
    IF Len(d) > 0
    THEN <<NL, title, NL>> \o Flatten([i \in DOMAIN d |-> EntryLine(d[i])])
    ELSE <<>>

\* AbbrAndDefGenerator.generate_section: what it writes
RenderAbbrAndDef(g, d) ==
    AbbrHeading(g) \o AbbrLastUpdated(d) \o <<AbbrBoilerplate>> \o AbbrRule
        \o g.description \o <<NL>>
        \o Subsection("## Abbreviations", g.abbreviations)
        \o Subsection("## Defines", g.defines)

Render(g, d) ==
    IF g.kind = "Introduction" THEN RenderIntroduction(g, d) ELSE RenderAbbrAndDef(g, d)

\* A slip: the section directory made on the way (os.makedirs(section_dir)).
GenerateSectionMakingDirs(disk, g, d) ==
    LET made == [p \in Paths |->
                    IF p = <<>> \/ p = SectionDir(g.section_name) THEN Dir ELSE disk[p]]
    IN  IF IsFile(disk, <<>>) \/ IsFile(disk, SectionDir(g.section_name))
        THEN Raise(disk, "FileExistsError")
        ELSE OpenWrite(made, SectionFile(g.section_name), Render(g, d))

\* generate_section of either variant
GenerateSection(disk, g, d) == OpenWrite(disk, SectionFile(g.section_name), Render(g, d))

(***************************************************************************)
(* DocumentationManager.generate_sections: the registry holds generator    *)
(* ids; the first generator that raises ends the loop.                     *)
(***************************************************************************)
RECURSIVE RunGenerators(_, _, _, _, _)
RunGenerators(disk, ids, heap, d, called) ==
    IF ids = <<>> THEN [fs |-> disk, err |-> NoError, invoked |-> called]
    ELSE LET r == GenerateSection(disk, heap[Head(ids)], d)
         IN  IF r.err # NoError
             THEN [fs |-> r.fs, err |-> r.err, invoked |-> Append(called, Head(ids))]
             ELSE RunGenerators(r.fs, Tail(ids), heap, d, Append(called, Head(ids)))

\* A slip: a generator that raises is passed over and the rest still run.
RECURSIVE RunIsolated(_, _, _, _, _, _)
RunIsolated(disk, ids, heap, d, called, e) ==
    IF ids = <<>> THEN [fs |-> disk, err |-> e, invoked |-> called]
    ELSE LET r == GenerateSection(disk, heap[Head(ids)], d)
         IN  RunIsolated(r.fs, Tail(ids), heap, d, Append(called, Head(ids)),
                         IF e = NoError THEN r.err ELSE e)

GenerateSectionsIsolated(disk, ids, heap, d) ==
    RunIsolated(disk, ids, heap, d, <<>>, NoError)

GenerateSections(disk, ids, heap, d) == RunGenerators(disk, ids, heap, d, <<>>)

(***************************************************************************)
(* State.                                                                  *)
(*   generators          the generator objects the driver constructed      *)
(*   section_generators  the manager's registry (ids into generators)      *)
(*   fs                  the filesystem under doc_root                     *)
(*   err                 what the last call raised (NoError: it returned)  *)
(*   last                the last call                                     *)
(*   invoked             the generators the last generate_sections called  *)
(*   added               per generator, the names passed to add_* so far   *)
(*   hist                what has been called since the start              *)
(*   steps               the calls the driver has yet to make              *)
(***************************************************************************)
OldContent == <<"old", NL, "text", NL, "left", NL, "over">>

NodesAtStart == {Absent, Dir, File(OldContent)}

Entries(disk) == {p \in Paths : Len(p) = 1 /\ Exists(disk, p)}

\* Every filesystem the program may be started on.
AnyDisk == {disk \in [Paths -> NodesAtStart] : WellFormed(disk)}

NoDisk == [p \in Paths |-> Absent]

EmptyRoot == [p \in Paths |-> IF p = <<>> THEN Dir ELSE Absent]

FreshDisks == {NoDisk, EmptyRoot}

StartOf(disk) ==
    IF disk = NoDisk THEN "absent" ELSE IF disk = EmptyRoot THEN "empty" ELSE "populated"

GeneratorIds == DOMAIN generators

\* The length of the file at p (0 where there is none).
Held(disk, p) == IF IsFile(disk, p) THEN Len(disk[p].content) ELSE 0

FirstDay == CHOOSE d \in Dates : \A e \in Dates : d.month <= e.month

InitWith(disks, lists, heaps, calls) ==
    /\ section_names \in lists
    /\ project_description = <<"p", " ", "d">>
    /\ today = FirstDay
    /\ generators \in heaps
    /\ section_generators = <<>>
    /\ fs \in disks
    /\ err = NoError
    /\ last = [op |-> "construct", g |-> 0, again |-> FALSE, had |-> 0]
    /\ invoked = <<>>
    /\ added = [g \in DOMAIN generators |-> [abbreviations |-> <<>>, defines |-> <<>>]]
    /\ hist = [start |-> StartOf(fs), init |-> FALSE, toc |-> FALSE,
               gen |-> FALSE, tocEarly |-> FALSE, genEarly |-> FALSE,
               raised |-> FALSE]
    /\ steps = calls

\* One call by the driver: op on generator g (0: on the manager) that raised e
\* (NoError: returned), the file it writes having held `had` pieces before;
\* again: the call before was the same operation and returned.
Called(op, g, e, had) ==
    /\ steps > 0
    /\ steps' = steps - 1
    /\ last' = [op |-> op, g |-> g, had |-> had,
                again |-> (last.op = op /\ last.g = g /\ err = NoError)]
    /\ err' = e

(***************************************************************************)
(* The manager's operations.                                               *)
(***************************************************************************)
initialize_project ==
    LET r == InitializeProject(fs, section_names)
    IN  /\ Called("initialize_project", 0, r.err, 0)
        /\ fs' = r.fs
        /\ hist' = [hist EXCEPT !.init = TRUE,
                                !.raised = @ \/ r.err # NoError]
        /\ UNCHANGED <<section_names, project_description, today, generators,
                       section_generators, invoked, added>>

update_table_of_contents ==
    LET r == UpdateTableOfContents(fs, section_names, project_description)
    IN  /\ Called("update_table_of_contents", 0, r.err, Held(fs, TocPath))
        /\ fs' = r.fs
        /\ hist' = [hist EXCEPT !.toc = TRUE,
                                !.tocEarly = @ \/ ~hist.init,
                                !.raised = @ \/ r.err # NoError]
        /\ UNCHANGED <<section_names, project_description, today, generators,
                       section_generators, invoked, added>>

RegisterSectionGenerator(registry, g) == Append(registry, g)

register_section_generator(g) ==
    /\ Len(section_generators) < MaxRegistered
    /\ Called("register_section_generator", g, NoError, 0)
    /\ section_generators' = RegisterSectionGenerator(section_generators, g)
    /\ UNCHANGED <<section_names, project_description, today, generators,
                   fs, invoked, added, hist>>

generate_sections ==
    LET r == GenerateSections(fs, section_generators, generators, today)
    IN  /\ Called("generate_sections", 0, r.err, 0)
        /\ fs' = r.fs
        /\ invoked' = r.invoked
        /\ hist' = [hist EXCEPT !.gen = TRUE,
                                !.genEarly = @ \/ ~hist.init,
                                !.raised = @ \/ r.err # NoError]
        /\ UNCHANGED <<section_names, project_description, today, generators,
                       section_generators, added>>

(***************************************************************************)
(* The generators' operations, called by the driver.                       *)
(***************************************************************************)
generate_section(g) ==
    LET r == GenerateSection(fs, generators[g], today)
    IN  /\ Called("generate_section", g, r.err,
                  Held(fs, SectionFile(generators[g].section_name)))
        /\ fs' = r.fs
        /\ UNCHANGED <<section_names, project_description, today, generators,
                       section_generators, invoked, added, hist>>

\* The names passed so far, each kept at its first position.
Note(names, k) == IF k \in Range(names) THEN names ELSE Append(names, k)

add_abbreviation(g, name, value) ==
    /\ generators[g].kind = "AbbrAndDef"
    /\ Called("add_abbreviation", g, NoError, 0)
    /\ generators' = [generators EXCEPT
                        ![g].abbreviations = DictSet(@, name, value)]
    /\ added' = [added EXCEPT ![g].abbreviations = Note(@, name)]
    /\ UNCHANGED <<section_names, project_description, today,
                   section_generators, fs, invoked, hist>>

add_define(g, name, value) ==
    /\ generators[g].kind = "AbbrAndDef"
    /\ Called("add_define", g, NoError, 0)
    /\ generators' = [generators EXCEPT ![g].defines = DictSet(@, name, value)]
    /\ added' = [added EXCEPT ![g].defines = Note(@, name)]
    /\ UNCHANGED <<section_names, project_description, today,
                   section_generators, fs, invoked, hist>>

\* The calendar date moves on between two calls.
Later(d) == \A e \in Dates : e.month <= d.month

next_day ==
    /\ ~Later(today)
    /\ Called("next_day", 0, NoError, 0)
    /\ today' = CHOOSE d \in Dates : Later(d)
    /\ UNCHANGED <<section_names, project_description, generators,
                   section_generators, fs, invoked, added, hist>>

ManagerNext ==
    \/ initialize_project
    \/ update_table_of_contents
    \/ \E g \in GeneratorIds : register_section_generator(g)
    \/ generate_sections

GeneratorNext ==
    \/ \E g \in GeneratorIds : generate_section(g)
    \/ \E g \in GeneratorIds, k \in EntryNames, v \in EntryValues :
            add_abbreviation(g, k, v)
    \/ \E g \in GeneratorIds, k \in EntryNames, v \in EntryValues :
            add_define(g, k, v)
    \/ next_day

DiskNext ==
    \/ initialize_project
    \/ update_table_of_contents
    \/ \E g \in GeneratorIds : generate_section(g)

Next == ManagerNext \/ GeneratorNext

(***************************************************************************)
(* Specifications.                                                         *)
(*   Spec         the driver of main.py: a manager over two sections and   *)
(*                an introduction and an abbreviations generator, started  *)
(*                where doc_root does not exist; every operation           *)
(*   SpecManager  the manager's operations from a fresh doc_root, over     *)
(*                every list of section names, with three generators       *)
(*   SpecDisk     the operations that touch the filesystem, started on a   *)
(*                doc_root that already holds something                    *)
(***************************************************************************)
NameAB == <<"a", " ", "b">>

NameC == <<"c">>

LongText == <<"x", " ", "y">>

ShortText == <<"x">>

MainSections == <<NameAB, NameC>>

MainHeap == <<IntroductionGenerator(NameAB, LongText), AbbrAndDefGenerator(NameC, ShortText)>>

TwinHeap == <<IntroductionGenerator(NameC, LongText), AbbrAndDefGenerator(NameC, ShortText)>>

ThreeHeap ==
    <<IntroductionGenerator(NameAB, LongText), AbbrAndDefGenerator(NameC, ShortText),
      IntroductionGenerator(TocFile, ShortText)>>

NoDuplicates(s) == \A i, j \in DOMAIN s : s[i] = s[j] => i = j

SectionLists == {s \in SeqsUpTo(Names, MaxSections) : NoDuplicates(s)}

DisksAtStart == {disk \in AnyDisk : Cardinality(Entries(disk)) <= MaxEntriesAtStart}

Init == InitWith({NoDisk}, {MainSections}, {MainHeap, TwinHeap}, MaxOps)

InitManager == InitWith(FreshDisks, SectionLists, {ThreeHeap}, MaxOps)

InitDisk == InitWith(DisksAtStart, SectionLists, {MainHeap}, MaxDiskOps)

Spec == Init /\ [][Next]_vars

SpecManager == InitManager /\ [][ManagerNext]_vars

SpecDisk == InitDisk /\ [][DiskNext]_vars

(***************************************************************************)
(* What the claims speak of.                                               *)
(***************************************************************************)
Returned(op) == last.op = op /\ err = NoError

HasSpace(name) == " " \in Range(name)

\* name with every space replaced by "_" and nothing else changed
Underscored(name) == [j \in DOMAIN name |-> IF name[j] = " " THEN "_" ELSE name[j]]

LinkTo(c) == <<"](./">> \o c \o <<"/">> \o c \o <<".md)">>

BulletFor(name) == <<"- [">> \o name \o LinkTo(Underscored(name))

IsBullet(line) == Len(line) > 0 /\ line[1] = "- ["

BulletLines(text) == SelectSeq(Lines(text), IsBullet)

FilesOnDisk == {p \in Paths : IsFile(fs, p)}

DirsOf(disk) == {p \in Paths : IsDir(disk, p)}

Registered == Range(section_generators)

NameOf(g) == generators[g].section_name

\* The file the last generate_section() call writes.
LastTarget == SectionFile(NameOf(last.g))

RegisteredTarget(i) == SectionFile(NameOf(section_generators[i]))

SectionFileAt(c) == <<c, c \o <<".md">>>>

EndsWith(line, tail) ==
    /\ Len(line) >= Len(tail)
    /\ SubSeq(line, Len(line) - Len(tail) + 1, Len(line)) = tail

\* ArchDoc.md holds a bullet whose link target is ./c/c.md
Linked(c) ==
    /\ IsFile(fs, TocPath)
    /\ \E line \in Range(Lines(fs[TocPath].content)) :
          IsBullet(line) /\ EndsWith(line, LinkTo(c))

\* Section files no bullet of ArchDoc.md links.
Orphans == {c \in Comps : IsFile(fs, SectionFileAt(c)) /\ ~Linked(c)}

\* Links of ArchDoc.md whose target does not exist.
DeadLinks == {c \in Comps : Linked(c) /\ ~Exists(fs, SectionFileAt(c))}

ListedDirs == {Underscored(n) : n \in Range(section_names)}

\* From an empty doc_root: initialize_project(), then update_table_of_contents(),
\* registrations, and generate_sections() as the last call.
MismatchScenario ==
    /\ hist.start # "populated"
    /\ hist.init /\ hist.toc /\ ~hist.tocEarly /\ ~hist.genEarly
    /\ last.op = "generate_sections"

\* The calls of the last generate_sections() that returned.
Done == IF err = NoError THEN Len(invoked) ELSE Len(invoked) - 1

\* Among the calls that returned, the last one that wrote the file of call i.
LastWriter(i) ==
    CHOOSE j \in i..Done :
        /\ RegisteredTarget(j) = RegisteredTarget(i)
        /\ \A m \in (j + 1)..Done : RegisteredTarget(m) # RegisteredTarget(i)

\* What the calls made so far leave when made in the order of main.py:
\* initialize_project, update_table_of_contents, the registrations,
\* generate_sections.
CanonicalDisk ==
    LET d1 == IF hist.init THEN InitializeProject(NoDisk, section_names).fs ELSE NoDisk
        d2 == IF hist.toc
              THEN UpdateTableOfContents(d1, section_names, project_description).fs
              ELSE d1
    IN  IF hist.gen THEN GenerateSections(d2, section_generators, generators, today).fs
        ELSE d2

\* Every registered generator's section name is an entry of section_names.
AllListed == \A g \in Registered : NameOf(g) \in Range(section_names)

Occurrences(lines, title) == {i \in DOMAIN lines : lines[i] = <<title>>}

IsEntryLine(line) == Len(line) > 0 /\ line[1] = " + **"

\* The lines from the one after the title line to the next empty line.
SubsectionOf(lines, title) ==
    LET at == CHOOSE i \in DOMAIN lines : lines[i] = <<title>>
        end == CHOOSE j \in (at + 1)..Len(lines) :
                  /\ lines[j] = <<>>
                  /\ \A m \in (at + 1)..(j - 1) : lines[m] # <<>>
    IN  SubSeq(lines, at + 1, end - 1)

EntryLineFor(name, value) == <<" + **">> \o name \o <<"**: ">> \o value

ValueOf(d, name) == d[CHOOSE i \in DOMAIN d : d[i][1] = name][2]

\* The subsection under `title` for mapping d, whose names were first added in
\* the order `names`.
SubsectionAsClaimed(lines, title, d, names) ==
    /\ Cardinality(Occurrences(lines, title)) = IF Len(d) > 0 THEN 1 ELSE 0
    /\ Len(d) > 0 =>
          /\ Range(names) = Range(Keys(d))
          /\ SubsectionOf(lines, title)
                = [k \in DOMAIN names |-> EntryLineFor(names[k], ValueOf(d, names[k]))]

\* The generators of the other variant for the same section.
Twins(g) ==
    {h \in GeneratorIds : NameOf(h) = NameOf(g) /\ generators[h].kind # generators[g].kind}

\* heading, blank, last updated, blank, boilerplate, blank, rule, blank
Scaffold(text) == SubSeq(Lines(text), 1, 8)

(***************************************************************************)
(* C1: after initialize_project() returns without error, a directory       *)
(* exists at <doc_root>/<name with spaces replaced by '_'> for every name  *)
(* in section_names, whatever was under doc_root before the call.          *)
(***************************************************************************)
C1_SectionDirsExist ==
    Returned("initialize_project") =>
        \A i \in DOMAIN section_names : IsDir(fs, <<Underscored(section_names[i])>>)

(***************************************************************************)
(* C2: update_table_of_contents() writes ArchDoc.md whose bullet lines are *)
(* exactly one per entry of section_names, in order, the i-th being        *)
(* '- [<name_i>](./<norm_i>/<norm_i>.md)', whatever generators are         *)
(* registered.                                                             *)
(***************************************************************************)
C2_TocBullets ==
    Returned("update_table_of_contents") =>
        /\ IsFile(fs, TocPath)
        /\ BulletLines(fs[TocPath].content)
             = [i \in DOMAIN section_names |-> BulletFor(section_names[i])]

C2_Witness ==
    /\ Returned("update_table_of_contents")
    /\ Len(section_names) = 2
    /\ HasSpace(section_names[2])
    /\ ~HasSpace(section_names[1])
    /\ section_generators # <<>>

(***************************************************************************)
(* C3: a call to generate_section() changes the filesystem only at         *)
(* <doc_root>/<norm>/<norm>.md: every other file and every directory is    *)
(* unchanged, no directory is created, the generators' attributes and the  *)
(* registry are unchanged; where the parent directory does not exist the   *)
(* call raises and creates nothing.                                        *)
(***************************************************************************)
C3_GenerateSectionFrame ==
    [][(last'.op = "generate_section" /\ steps' = steps - 1) =>
          LET target == SectionFile(generators[last'.g].section_name)
          IN  /\ \A p \in Paths \ {target} : fs'[p] = fs[p]
              /\ DirsOf(fs') = DirsOf(fs)
              /\ generators' = generators
              /\ section_generators' = section_generators
              /\ ~Exists(fs, Parent(target)) => (err' # NoError /\ fs' = fs)
              /\ err' # NoError => fs' = fs
              /\ err' = NoError => IsFile(fs', target)]_vars

C3_Witness ==
    /\ Returned("generate_section")
    /\ \E p \in FilesOnDisk : p # LastTarget
    /\ \E p \in DirsOf(fs) : Len(p) = 1 /\ p # Parent(LastTarget)

(***************************************************************************)
(* C4: generate_sections() calls generate_section() on the registered      *)
(* generators in registration order, each once; if the k-th call raises,   *)
(* the error propagates, generators 1..k-1 have written their files and    *)
(* generators k+1.. are never invoked.                                     *)
(***************************************************************************)
C4_GenerateSectionsOrder ==
    last.op = "generate_sections" =>
        /\ Len(invoked) <= Len(section_generators)
        /\ invoked = SubSeq(section_generators, 1, Len(invoked))
        /\ err = NoError => invoked = section_generators
        /\ err # NoError =>
              /\ Len(invoked) >= 1
              /\ \/ ~IsDir(fs, Parent(RegisteredTarget(Len(invoked))))
                 \/ IsDir(fs, RegisteredTarget(Len(invoked)))
        /\ \A i \in 1..Done :
              fs[RegisteredTarget(i)]
                 = File(Render(generators[section_generators[LastWriter(i)]], today))

C4_Witness ==
    /\ last.op = "generate_sections"
    /\ err # NoError
    /\ Len(section_generators) = 3
    /\ Len(invoked) = 2
    /\ IsFile(fs, RegisteredTarget(1))
    /\ ~Exists(fs, Parent(RegisteredTarget(2)))
    /\ IsDir(fs, Parent(RegisteredTarget(3)))
    /\ ~Exists(fs, RegisteredTarget(3))

(***************************************************************************)
(* C5, as stated: a mismatch between registered generators and             *)
(* section_names is never rejected and never raises: from an empty         *)
(* doc_root, after initialize_project(), update_table_of_contents(),       *)
(* registering a generator whose section_name is not in section_names, and *)
(* generate_sections(), the run completes silently and leaves an orphan    *)
(* section file (one ArchDoc.md does not link); and a name in              *)
(* section_names with no registered generator leaves a link whose target   *)
(* does not exist.                                                         *)
(***************************************************************************)
C5_Original ==
    MismatchScenario =>
        /\ (\E g \in Registered : NameOf(g) \notin Range(section_names)) =>
              (err = NoError /\ Orphans # {})
        /\ \A n \in Range(section_names) :
              (\A g \in Registered : NameOf(g) # n) => Underscored(n) \in DeadLinks

(***************************************************************************)
(* C5, as amended: register_section_generator() never rejects a generator, *)
(* but from an empty doc_root (no section name normalising to ArchDoc.md), *)
(* after initialize_project() and update_table_of_contents(),              *)
(* generate_sections() raises when some registered generator's normalised  *)
(* name is not the normalised name of an entry of section_names, and       *)
(* returns otherwise; no orphan section file is left; a name in            *)
(* section_names whose normalised name no registered generator has leaves  *)
(* a link whose target does not exist.                                     *)
(***************************************************************************)
C5_Amended ==
    /\ last.op = "register_section_generator" => err = NoError
    /\ (MismatchScenario /\ TocFile \notin ListedDirs) =>
        /\ (\E g \in Registered : Underscored(NameOf(g)) \notin ListedDirs) =>
              err # NoError
        /\ (\A g \in Registered : Underscored(NameOf(g)) \in ListedDirs) =>
              err = NoError
        /\ Orphans = {}
        /\ \A n \in Range(section_names) :
              (\A g \in Registered : Underscored(NameOf(g)) # Underscored(n)) =>
                  Underscored(n) \in DeadLinks

C5_Witness ==
    /\ MismatchScenario
    /\ TocFile \notin ListedDirs
    /\ \E g \in Registered : Underscored(NameOf(g)) \notin ListedDirs
    /\ Orphans = {}
    /\ DeadLinks # {}
    /\ err = "FileNotFoundError"

(***************************************************************************)
(* C6: a second initialize_project() on the state left by a first          *)
(* successful one raises no error, creates nothing and leaves every        *)
(* directory and every file under doc_root as it was.                      *)
(***************************************************************************)
C6_InitializeIdempotent ==
    [][(Returned("initialize_project") /\ last'.op = "initialize_project"
            /\ steps' = steps - 1) =>
          (err' = NoError /\ fs' = fs)]_vars

C6_Witness ==
    /\ Returned("initialize_project")
    /\ last.again
    /\ Len(section_names) = 2
    /\ FilesOnDisk # {}

(***************************************************************************)
(* C7: generating a section replaces the file in full: after               *)
(* generate_section() the file's content is a function only of the         *)
(* generator's current section_name, description, abbreviations and        *)
(* defines and the current date, never of the file's previous content;     *)
(* the same holds for ArchDoc.md and update_table_of_contents().           *)
(***************************************************************************)
C7_ReplacedInFull ==
    /\ Returned("generate_section") =>
          fs[LastTarget] = File(Render(generators[last.g], today))
    /\ Returned("update_table_of_contents") =>
          fs[TocPath] = File(RenderToc(section_names, project_description))

C7_Witness ==
    /\ Returned("generate_section")
    /\ generators[last.g].kind = "Introduction"
    /\ last.had > Len(fs[LastTarget].content)

(***************************************************************************)
(* C8: in the file AbbrAndDefGenerator.generate_section() writes,          *)
(* '## Abbreviations' occurs once if the abbreviations mapping is          *)
(* non-empty and not at all if it is empty, likewise '## Defines'; each    *)
(* subsection holds one line ' + **<name>**: <value>' per entry, in the    *)
(* order the names were first added, and Abbreviations precedes Defines.   *)
(***************************************************************************)
C8_Subsections ==
    (Returned("generate_section") /\ generators[last.g].kind = "AbbrAndDef") =>
        LET g == generators[last.g]
            lines == Lines(fs[LastTarget].content)
        IN  /\ SubsectionAsClaimed(lines, "## Abbreviations", g.abbreviations,
                                   added[last.g].abbreviations)
            /\ SubsectionAsClaimed(lines, "## Defines", g.defines,
                                   added[last.g].defines)
            /\ Len(SelectSeq(lines, IsEntryLine))
                  = Len(g.abbreviations) + Len(g.defines)
            /\ \A i \in Occurrences(lines, "## Abbreviations"),
                  j \in Occurrences(lines, "## Defines") : i < j

C8_Witness ==
    /\ Returned("generate_section")
    /\ generators[last.g].kind = "AbbrAndDef"
    /\ Len(generators[last.g].abbreviations) = 2
    /\ Len(generators[last.g].defines) = 1

(***************************************************************************)
(* C9, as stated: for the same section_name and date, the two variants     *)
(* write byte-identical scaffolding: the heading line, the last-updated    *)
(* line, the boilerplate line and the horizontal rule that precede the     *)
(* description are the same bytes in both files.                           *)
(***************************************************************************)
C9_Original ==
    Returned("generate_section") =>
        \A h \in Twins(last.g) :
            Scaffold(fs[LastTarget].content) = Scaffold(Render(generators[h], today))

(***************************************************************************)
(* C9, as amended: for the same section_name and date, the heading line,   *)
(* the last-updated line and the horizontal rule (and the blank lines      *)
(* around them) are the same bytes in both variants' files; the            *)
(* boilerplate sentence between them is each variant's own.                *)
(***************************************************************************)
C9_Amended ==
    Returned("generate_section") =>
        \A h \in Twins(last.g) :
            LET mine == Scaffold(fs[LastTarget].content)
                other == Scaffold(Render(generators[h], today))
            IN  /\ \A i \in (1..8) \ {5} : mine[i] = other[i]
                /\ mine[5] # other[5]
                /\ mine[1] = <<"# ">> \o NameOf(last.g)
                /\ mine[7] = <<"---">>
                /\ \A i \in {2, 4, 6, 8} : mine[i] = <<>>

C9_Witness ==
    /\ Returned("generate_section")
    /\ Twins(last.g) # {}
    /\ today # FirstDay

(***************************************************************************)
(* C10, as stated: from a filesystem where doc_root does not exist, every  *)
(* sequence of initialize_project(), update_table_of_contents(),           *)
(* register_section_generator() and generate_sections() calls in which     *)
(* each generate_sections() comes after an initialize_project()            *)
(* (generators' names all in section_names) completes with no operation    *)
(* raising, and all such sequences of the same calls end in the same       *)
(* filesystem state (so in the state main.py's order of them leaves).      *)
(***************************************************************************)
C10_Original ==
    (hist.start = "absent" /\ ~hist.genEarly /\ AllListed) =>
        (~hist.raised /\ fs = CanonicalDisk)

(***************************************************************************)
(* C10, as amended: update_table_of_contents() too must come after an      *)
(* initialize_project(), and no section name may normalise to ArchDoc.md;  *)
(* then no operation raises, and all such sequences of the same calls      *)
(* leave the same directories and the same ArchDoc.md, while a section     *)
(* file, where there is one, holds what one of the registered generators   *)
(* of that section writes (which one, and whether there is one, depends on *)
(* the order of the calls).                                                *)
(***************************************************************************)
C10_Amended ==
    (hist.start = "absent" /\ ~hist.genEarly /\ ~hist.tocEarly /\ AllListed
        /\ TocFile \notin ListedDirs) =>
        /\ ~hist.raised
        /\ DirsOf(fs) = DirsOf(CanonicalDisk)
        /\ fs[TocPath] = CanonicalDisk[TocPath]
        /\ \A c \in Comps :
              Exists(fs, SectionFileAt(c)) =>
                  \E g \in Registered :
                      /\ SectionFile(NameOf(g)) = SectionFileAt(c)
                      /\ fs[SectionFileAt(c)] = File(Render(generators[g], today))

C10_Witness ==
    /\ hist.start = "absent" /\ ~hist.genEarly /\ ~hist.tocEarly /\ AllListed
    /\ TocFile \notin ListedDirs
    /\ hist.init /\ hist.toc /\ hist.gen
    /\ Len(section_names) = 2
    /\ Cardinality(Registered) = 2
    /\ fs # CanonicalDisk

====
